---- MODULE Spec2Model ----
(***************************************************************************)
(* Model of the reconciliation core of mint-amazon-linker:                 *)
(*   src/utils.ts  lines 1-11     amountsMatch, combinations, getTotalAmount*)
(*                                (<< and & on 32-bit integers)             *)
(*   src/utils.ts  lines 165-457  Joiner.joinOrders and its strategies      *)
(*                                                                         *)
(* Amounts are whole cents (the sources parse two-decimal prices), so the  *)
(* 0.01 tolerance is 1 cent and toFixed(2) rounds to a whole cent.  Dates  *)
(* are whole days.  A description is a sequence of tokens, " " being       *)
(* whitespace, so that trim() has something to remove.  JavaScript object  *)
(* identity (indexOf in removeItem) is carried by ids: transaction id,     *)
(* order id, tracking id inside one order, `ref` (the position in the      *)
(* freshly built pool) for pool items, and the array index for returns.    *)
(***************************************************************************)
EXTENDS Integers, Sequences, FiniteSets, TLC

VARIABLES
    caller,            \* the caller's three collections (arrays owned by the caller)
    input,             \* the values of the three arguments when joinOrders was called
    mintTransactions,  \* local: working copy of the transactions
    amazonOrders,      \* local: working copy of the orders, sorted
    amazonReturns,     \* local: the returns array joinOrders currently refers to
    returnsCloned,     \* FALSE while amazonReturns still aliases caller.returns (before line 412)
    joinedRecords,     \* local: records pushed so far
    giftCards,         \* local: gift-card credits pushed so far
    pc,                \* position in joinOrders
    matcher,           \* index of the strategy of the outer loop, 1..3
    i,                 \* index of the order loop / of the return loop (0-based, as in the code)
    amazonOrder,       \* the order object the while loop works on
    dirty,             \* the while loop's flag
    log,               \* history: one entry per strategy match / return match, in program order
    run,               \* 1 for the first call, 2 for the call on the remaining outputs
    firstResult,       \* history: what the first call returned
    array,             \* input of combinations (pure-function specification)
    subsets            \* result of combinations(array)

joinVars == <<caller, input, mintTransactions, amazonOrders, amazonReturns, returnsCloned,
              joinedRecords, giftCards, pc, matcher, i, amazonOrder, dirty, log, run,
              firstResult>>
combVars == <<array, subsets>>
vars == <<caller, input, mintTransactions, amazonOrders, amazonReturns, returnsCloned,
          joinedRecords, giftCards, pc, matcher, i, amazonOrder, dirty, log, run,
          firstResult, array, subsets>>

NoValue == [none |-> TRUE]

-----------------------------------------------------------------------------
(* Generic sequence helpers (Array.prototype methods used by the code).     *)

Abs(x) == IF x < 0 THEN -x ELSE x

\* a & b on non-negative integers
RECURSIVE BitAnd(_, _)
BitAnd(a, b) ==
    IF a = 0 \/ b = 0 THEN 0
    ELSE (IF a % 2 = 1 /\ b % 2 = 1 THEN 1 ELSE 0) + 2 * BitAnd(a \div 2, b \div 2)

\* array.filter with a predicate that also receives the 0-based index
FilterIdx(s, keep(_, _)) ==
    LET f[k \in 0..Len(s)] ==
            IF k = 0 THEN <<>>
            ELSE IF keep(s[k], k - 1) THEN Append(f[k - 1], s[k]) ELSE f[k - 1]
    IN  f[Len(s)]

Filter(s, keep(_)) == SelectSeq(s, keep)

\* the sequence as an explicit tuple
Tuple(s) == s \o <<>>

Reverse(s) == Tuple([k \in 1..Len(s) |-> s[Len(s) + 1 - k]])

FlatMap(s, f(_)) ==
    LET g[k \in 0..Len(s)] == IF k = 0 THEN <<>> ELSE g[k - 1] \o f(s[k])
    IN  g[Len(s)]

Map(s, f(_)) == Tuple([k \in 1..Len(s) |-> f(s[k])])

\* Array.prototype.sort with comparator (a, b) => key(a) - key(b): ascending by key,
\* stable (elements with equal keys keep their relative order)
SortByKey(s, key(_)) ==
    LET before(a, b) == key(s[a]) < key(s[b]) \/ (key(s[a]) = key(s[b]) /\ a < b)
        rank(a) == 1 + Cardinality({b \in 1..Len(s) : before(b, a)})
    IN  Tuple([r \in 1..Len(s) |-> s[CHOOSE a \in 1..Len(s) : rank(a) = r]])

\* position of the first element satisfying test, 0 when there is none (find / indexOf)
FindIndex(s, test(_)) ==
    LET hits == {k \in 1..Len(s) : test(s[k])}
    IN  IF hits = {} THEN 0 ELSE CHOOSE k \in hits : \A h \in hits : k <= h

RemoveAt(s, k) == SubSeq(s, 1, k - 1) \o SubSeq(s, k + 1, Len(s))

\* removeItem(array, item), src/utils.ts 198-204; index is array.indexOf(item) as a
\* 1-based position, 0 when the item is not in the array
removeItem(s, index) == IF index = 0 THEN s ELSE RemoveAt(s, index)

-----------------------------------------------------------------------------
(* src/utils.ts lines 1-11                                                  *)

Tolerance == 1

amountsMatch(a, b) == Abs(a - b) < Tolerance

\* the operands of << and & are 32-bit two's complement integers
WordBits == 32

\* 1 << n: the count is taken modulo 32, and bit 31 is the sign bit
shiftLeftOne(n) ==
    IF n % WordBits = WordBits - 1
    THEN 0 - 2^(WordBits - 2) - 2^(WordBits - 2)
    ELSE 2^(n % WordBits)

\* a & b for a >= 0: a negative b = 1 << 31 holds bit 31 alone, which a lacks
bitAnd(a, b) == IF b < 0 THEN 0 ELSE BitAnd(a, b)

\* new Array((1 << n) - 1) raises a RangeError when the length is negative
combinationsThrows(arr) == shiftLeftOne(Len(arr)) < 0

\* new Array((1 << n) - 1).fill(null).map((e1, i) => array.filter((e2, j) => (i + 1) & (1 << j)))
\* i is 0-based in the code; k = i + 1 is the 1-based position of the result.
\* A call that throws returns nothing: the callers test combinationsThrows.
combinations(arr) ==
    IF combinationsThrows(arr) THEN <<>>
    ELSE Tuple([k \in 1..(shiftLeftOne(Len(arr)) - 1) |->
                   FilterIdx(arr, LAMBDA e2, j : bitAnd((k - 1) + 1, shiftLeftOne(j)) # 0)])

RECURSIVE SumAmounts(_)
SumAmounts(items) == IF items = <<>> THEN 0 ELSE Head(items).amount + SumAmounts(Tail(items))

\* Number(sum.toFixed(2)): the sum rounded to a whole cent
getTotalAmount(items) == SumAmounts(items)

-----------------------------------------------------------------------------
(* src/utils.ts lines 165-226: constants and small helpers of the Joiner     *)

WINDOW_DAYS == 14

SPACE == " "
DESCRIPTION_PREFIX == <<"Amazon", SPACE, "-", SPACE>>
GIFT_CARD_DESCRIPTION == <<"Gift", SPACE, "Card">>
BALANCE_ADJUST_DESCRIPTION == <<"Balance", SPACE, "Adjust">>
NO_TRACKING == "none"

\* String.prototype.trim: leading and trailing whitespace removed
RECURSIVE TrimLeft(_)
TrimLeft(d) == IF d # <<>> /\ Head(d) = SPACE THEN TrimLeft(Tail(d)) ELSE d

Trim(d) == Reverse(TrimLeft(Reverse(TrimLeft(d))))

getTimeDelta(a, b) == Abs(a - b)

\* variant: a window without its end
inRangeOpenEnded(candidate, start) == candidate >= start

inRange(candidate, start) == candidate >= start /\ candidate <= start + WINDOW_DAYS

isDebit(mintTransaction) == mintTransaction.amount < 0

\* the two filters every strategy starts with (lines 221-222, 240-241, 267-268)
inWindowDebits(txs, order) ==
    Filter(Filter(txs, isDebit), LAMBDA t : inRange(t.date, order.orderDate))

\* positions in [getExactMatches, getCombinationMatches, getGiftCardMatches], line 329;
\* RETURN_PASS tags the matches of the second pass in the history
EXACT == 1
COMBINATION == 2
GIFT_CARD == 3
RETURN_PASS == 4

\* A strategy returns the matched transactions and, because getGiftCardMatches
\* writes through its arguments, the shipment group and the returns array as it
\* leaves them; strategy names the function that ran.
StrategyResult(strategy, matches, shipments, returns) ==
    [strategy |-> strategy, matches |-> matches, shipments |-> shipments,
     amazonReturns |-> returns]

getExactMatches(shipments, amount, order, returns, txs) ==
    LET candidates ==
            SortByKey(
                Filter(Filter(Filter(txs, isDebit),
                              LAMBDA t : inRange(t.date, order.orderDate)),
                       LAMBDA t : amountsMatch(t.amount, amount)),
                LAMBDA t : getTimeDelta(t.date, order.orderDate))
    IN  StrategyResult(EXACT, IF candidates = <<>> THEN <<>> ELSE <<candidates[1]>>, shipments, returns)

getCombinationMatches(shipments, amount, order, returns, txs) ==
    LET transactionCombinations ==
            Filter(
                combinations(
                    SortByKey(
                        Filter(Filter(txs, isDebit), LAMBDA t : inRange(t.date, order.orderDate)),
                        LAMBDA t : getTimeDelta(t.date, order.orderDate))),
                LAMBDA combination : Len(combination) >= 2)
        found == FindIndex(transactionCombinations,
                           LAMBDA c : amountsMatch(getTotalAmount(c), amount))
    IN  StrategyResult(COMBINATION, IF found = 0 THEN <<>> ELSE transactionCombinations[found],
                       shipments, returns)

\* variant: the synthetic item carries giftCardAmount itself
giftCardItemAmountSameSign(giftCardAmount) == giftCardAmount

\* the amount of the synthetic item: Number((-giftCardAmount).toFixed(2))
giftCardItemAmount(giftCardAmount) == 0 - giftCardAmount

PushItems(shipments, newItems) ==
    [shipments EXCEPT ![1].items = @ \o newItems]

getGiftCardMatches(shipments, amount, order, returns, txs) ==
    LET candidates ==
            SortByKey(
                Filter(Filter(Filter(txs, isDebit),
                              LAMBDA t : inRange(t.date, order.orderDate)),
                       LAMBDA t : t.amount > amount),
                LAMBDA t : Abs(t.amount - amount))
        mintTransaction == candidates[1]
        giftCardAmount == amount - mintTransaction.amount
        matchingReturn ==
            FindIndex(returns, LAMBDA r : amountsMatch(r.amount, 0 - giftCardAmount))
    IN  IF ~order.usedGiftCard \/ candidates = <<>> THEN StrategyResult(GIFT_CARD, <<>>, shipments, returns)
        ELSE IF matchingReturn # 0
        THEN StrategyResult(GIFT_CARD,
                 <<mintTransaction>>,
                 PushItems(shipments,
                           Map(returns[matchingReturn].items,
                               LAMBDA item : [description |-> item.description,
                                              amount |-> 0 - item.amount])),
                 RemoveAt(returns, matchingReturn))
        ELSE StrategyResult(GIFT_CARD,
                 <<mintTransaction>>,
                 PushItems(shipments,
                           <<[description |-> GIFT_CARD_DESCRIPTION,
                              amount |-> giftCardItemAmount(giftCardAmount)]>>),
                 returns)

\* variant: the array of line 329 with its first two strategies exchanged
ApplyMatcherSwapped(m, shipments, amount, order, returns, txs) ==
    CASE m = EXACT       -> getCombinationMatches(shipments, amount, order, returns, txs)
      [] m = COMBINATION -> getExactMatches(shipments, amount, order, returns, txs)
      [] m = GIFT_CARD   -> getGiftCardMatches(shipments, amount, order, returns, txs)

\* [getExactMatches, getCombinationMatches, getGiftCardMatches][m - 1]
ApplyMatcher(m, shipments, amount, order, returns, txs) ==
    CASE m = EXACT       -> getExactMatches(shipments, amount, order, returns, txs)
      [] m = COMBINATION -> getCombinationMatches(shipments, amount, order, returns, txs)
      [] m = GIFT_CARD   -> getGiftCardMatches(shipments, amount, order, returns, txs)

\* src/utils.ts 297-310
transactionMatches(joinedRecord, mintTransaction) ==
    /\ Len(mintTransaction.children) = Len(joinedRecord.items)
    /\ \A n \in 1..Len(joinedRecord.items) :
          \E c \in 1..Len(mintTransaction.children) :
             /\ amountsMatch(mintTransaction.children[c].amount, joinedRecord.items[n].amount)
             /\ Trim(mintTransaction.children[c].description)
                    = Trim(joinedRecord.items[n].description)

-----------------------------------------------------------------------------
(* src/utils.ts lines 340-396: the item pool and the allocation of items to  *)
(* one matched transaction                                                   *)

\* shipments.flatMap(shipment => shipment.items.map(item => ({trackingId, description, amount})))
\* ref numbers the freshly created objects: it stands for their identity
flattenItems(shipments) ==
    LET flat == FlatMap(shipments,
                        LAMBDA shipment :
                            Map(shipment.items,
                                LAMBDA item : [trackingId |-> shipment.trackingId,
                                               description |-> DESCRIPTION_PREFIX \o item.description,
                                               amount |-> item.amount]))
    IN  Tuple([k \in 1..Len(flat) |->
                  [ref |-> k, trackingId |-> flat[k].trackingId,
                   description |-> flat[k].description, amount |-> flat[k].amount]])

\* for (const item of matchItems) removeItem(items, item)
RECURSIVE removeItems(_, _)
removeItems(items, matchItems) ==
    IF matchItems = <<>> THEN items
    ELSE removeItems(removeItem(items,
                                FindIndex(items, LAMBDA x : x.ref = Head(matchItems).ref)),
                     Tail(matchItems))

Allocation(matchItems, items) == [matchItems |-> matchItems, items |-> items]

\* lines 350-359: every subset of the pool as it is when the scan starts is
\* visited; each subset that matches replaces matchItems and has its members
\* removed from the pool
exactSubsetScan(items, match) ==
    LET itemCombinations == combinations(items)
        scan[k \in 0..Len(itemCombinations)] ==
            IF k = 0 THEN Allocation(<<>>, items)
            ELSE IF amountsMatch(getTotalAmount(itemCombinations[k]), match.amount)
                 THEN Allocation(itemCombinations[k],
                                 removeItems(scan[k - 1].items, itemCombinations[k]))
                 ELSE scan[k - 1]
    IN  scan[Len(itemCombinations)]

\* lines 364-369
RECURSIVE greedyLoop(_, _, _)
greedyLoop(items, matchItems, remainingAmount) ==
    IF Len(items) > 0 /\ remainingAmount < 0
    THEN greedyLoop(removeItem(items, FindIndex(items, LAMBDA x : x.ref = items[1].ref)),
                    Append(matchItems, items[1]),
                    remainingAmount - items[1].amount)
    ELSE [matchItems |-> matchItems, items |-> items, remainingAmount |-> remainingAmount]

\* variant: the split without the balancing item of lines 370-376
greedySplitNoAdjust(items, match) ==
    LET g == greedyLoop(items, <<>>, match.amount)
    IN  Allocation(g.matchItems, g.items)

\* lines 362-377
greedySplit(items, match) ==
    LET g == greedyLoop(items, <<>>, match.amount)
    IN  IF ~amountsMatch(g.remainingAmount, 0)
        THEN Allocation(Append(g.matchItems,
                               [ref |-> 0, trackingId |-> NO_TRACKING,
                                description |-> DESCRIPTION_PREFIX \o BALANCE_ADJUST_DESCRIPTION,
                                amount |-> g.remainingAmount]),
                        g.items)
        ELSE Allocation(g.matchItems, g.items)

\* lines 348-377
allocateItems(items, match) ==
    LET exact == exactSubsetScan(items, match)
    IN  IF Len(exact.matchItems) = 0 THEN greedySplit(exact.items, match) ELSE exact

\* lines 379-383
giftCardsOf(matchItems, order) ==
    Map(Filter(matchItems,
               LAMBDA item : item.description = DESCRIPTION_PREFIX \o GIFT_CARD_DESCRIPTION),
        LAMBDA item : [orderId |-> order.orderId, amount |-> item.amount])

\* lines 385-393
makeJoinedRecord(match, order, matchItems) ==
    LET joinedRecord == [mintTransactionId |-> match.id,
                         orderId |-> order.orderId,
                         orderDate |-> order.orderDate,
                         amount |-> match.amount,
                         items |-> matchItems,
                         isUnmodified |-> FALSE]
    IN  [joinedRecord EXCEPT !.isUnmodified = transactionMatches(joinedRecord, match)]

\* variant: the matched transaction stays in the working copy
keepMatchedTransaction(txs, match) == txs

\* line 395: removeItem(mintTransactions, match)
removeMatchedTransaction(txs, match) ==
    removeItem(txs, FindIndex(txs, LAMBDA t : t.id = match.id))

\* lines 347-396: the loop over the matched transactions; raised tells that
\* combinations(items) of line 351 threw, which ends the loop
processMatches(matches, order, pool, records, credits, txs) ==
    LET step[k \in 0..Len(matches)] ==
            IF k = 0
            THEN [items |-> pool, joinedRecords |-> records, giftCards |-> credits,
                  mintTransactions |-> txs, raised |-> FALSE]
            ELSE LET before == step[k - 1]
                     a == allocateItems(before.items, matches[k])
                 IN  IF before.raised \/ combinationsThrows(before.items)
                     THEN [before EXCEPT !.raised = TRUE]
                     ELSE [items |-> a.items,
                           joinedRecords |->
                               Append(before.joinedRecords,
                                      makeJoinedRecord(matches[k], order, a.matchItems)),
                           giftCards |-> before.giftCards \o giftCardsOf(a.matchItems, order),
                           mintTransactions |->
                               removeMatchedTransaction(before.mintTransactions, matches[k]),
                           raised |-> FALSE]
    IN  step[Len(matches)]

-----------------------------------------------------------------------------
(* Joiner.joinOrders, src/utils.ts lines 313-456, as a state machine          *)

\* writes to the returns array joinOrders refers to: until line 412 that array
\* is the caller's own
WriteReturns(newReturns) ==
    /\ amazonReturns' = newReturns
    /\ caller' = IF returnsCloned THEN caller ELSE [caller EXCEPT !.returns = newReturns]

\* lines 323-328
Begin ==
    /\ pc = "start"
    /\ mintTransactions' = caller.transactions
    /\ amazonOrders' = SortByKey(caller.orders, LAMBDA o : 0 - getTotalAmount(o.shipments))
    /\ amazonReturns' = caller.returns
    /\ returnsCloned' = FALSE
    /\ joinedRecords' = <<>>
    /\ giftCards' = <<>>
    /\ matcher' = EXACT
    /\ i' = 0
    /\ pc' = "loop"
    /\ UNCHANGED <<caller, input, amazonOrder, dirty, log, run, firstResult>>
    /\ UNCHANGED combVars

\* lines 329-332: the tests of the two for loops, up to the entry of the while loop
RECURSIVE loopTest(_, _, _)
loopTest(m, idx, n) ==
    IF m > GIFT_CARD THEN [matcher |-> m, i |-> idx, enter |-> FALSE]
    ELSE IF idx < n THEN [matcher |-> m, i |-> idx, enter |-> TRUE]
    ELSE loopTest(m + 1, 0, n)

LoopHead ==
    /\ pc = "loop"
    /\ \E at \in {loopTest(matcher, i, Len(amazonOrders))} :
           /\ matcher' = at.matcher
           /\ i' = at.i
           /\ IF at.enter
              THEN /\ amazonOrder' = amazonOrders[at.i + 1]
                   /\ dirty' = TRUE
                   /\ pc' = "while"
              ELSE /\ amazonOrder' = NoValue
                   /\ dirty' = FALSE
                   /\ pc' = "cloneReturns"
    /\ UNCHANGED <<caller, input, mintTransactions, amazonOrders, amazonReturns, returnsCloned,
                   joinedRecords, giftCards, log, run, firstResult>>
    /\ UNCHANGED combVars

\* variant: the matched shipments stay in the order
keepShipments(orderShipments, shipments) == orderShipments

\* for (const shipment of shipments) removeItem(amazonOrder.shipments, shipment)
RECURSIVE removeShipments(_, _)
removeShipments(orderShipments, shipments) ==
    IF shipments = <<>> THEN orderShipments
    ELSE removeShipments(
             removeItem(orderShipments,
                        FindIndex(orderShipments,
                                  LAMBDA x : x.trackingId = Head(shipments).trackingId)),
             Tail(shipments))

\* variant: line 402 left out
indexWithoutDecrement(idx, order) == idx

\* lines 400-403: i-- when the emptied order is removed
indexAfterMatch(idx, order) == IF Len(order.shipments) = 0 THEN idx - 1 ELSE idx

\* lines 400-403
removeEmptiedOrder(orders, order) ==
    IF Len(order.shipments) = 0
    THEN removeItem(orders, FindIndex(orders, LAMBDA o : o.orderId = order.orderId))
    ELSE Tuple([k \in 1..Len(orders) |->
                   IF orders[k].orderId = order.orderId THEN order ELSE orders[k]])

\* the outcome of a while iteration that a RangeError of combinations ends: the
\* returns array is as the strategies called so far left it
Raised(returns) == [matched |-> FALSE, raised |-> TRUE, amazonReturns |-> returns]

\* lines 335-407: the body of the while loop.  The strategy is tried on the groups
\* of the order's shipments in reverse mask order and the first group with a match is
\* processed; a strategy writes through its arguments only when it matches.
\* combinations is called on the order's shipments (line 335), by the Combination
\* strategy on the debits inside the window (line 238, for the first group already)
\* and on the item pool (line 351); each call can throw.
whileBody(m, order, idx, orders, returns, txs, records, credits) ==
    LET shipmentCombinations == Reverse(combinations(order.shipments))
        try == Tuple([k \in 1..Len(shipmentCombinations) |->
                         ApplyMatcher(m, shipmentCombinations[k],
                                      getTotalAmount(shipmentCombinations[k]),
                                      order, returns, txs)])
        hits == {k \in 1..Len(try) : Len(try[k].matches) > 0}
        first == CHOOSE k \in hits : \A h \in hits : k <= h
        result == try[first]
        items == flattenItems(result.shipments)
        done == processMatches(result.matches, order, items, records, credits, txs)
        after == [order EXCEPT !.shipments = removeShipments(@, shipmentCombinations[first])]
    IN  IF combinationsThrows(order.shipments)
        THEN Raised(returns)
        ELSE IF /\ m = COMBINATION
                /\ shipmentCombinations # <<>>
                /\ combinationsThrows(inWindowDebits(txs, order))
        THEN Raised(returns)
        ELSE IF hits = {}
        THEN [matched |-> FALSE, raised |-> FALSE]
        ELSE IF done.raised
        THEN Raised(result.amazonReturns)
        ELSE [matched |-> TRUE,
              raised |-> FALSE,
              amazonReturns |-> result.amazonReturns,
              joinedRecords |-> done.joinedRecords,
              giftCards |-> done.giftCards,
              mintTransactions |-> done.mintTransactions,
              amazonOrder |-> after,
              amazonOrders |-> removeEmptiedOrder(orders, after),
              i |-> indexAfterMatch(idx, after),
              entry |-> [strategy |-> result.strategy,
                         orderId |-> order.orderId,
                         amount |-> getTotalAmount(shipmentCombinations[first]),
                         shipments |-> Map(shipmentCombinations[first], LAMBDA x : x.trackingId),
                         pool |-> items,
                         left |-> done.items,
                         transactions |-> result.matches,
                         returnsBefore |-> returns]]

\* lines 333-408: one iteration of the while loop; a RangeError leaves joinOrders
\* (pc = "RangeError"), the locals staying as the last completed iteration left them
MatchIteration ==
    /\ pc = "while"
    /\ dirty
    /\ \E out \in {whileBody(matcher, amazonOrder, i, amazonOrders, amazonReturns,
                             mintTransactions, joinedRecords, giftCards)} :
          IF out.raised
          THEN /\ WriteReturns(out.amazonReturns)
               /\ pc' = "RangeError"
               /\ UNCHANGED <<mintTransactions, amazonOrders, joinedRecords, giftCards,
                              amazonOrder, i, dirty, log>>
          ELSE IF ~out.matched
          THEN /\ dirty' = FALSE
               /\ i' = i + 1
               /\ pc' = "loop"
               /\ UNCHANGED <<caller, mintTransactions, amazonOrders, amazonReturns,
                              joinedRecords, giftCards, amazonOrder, log>>
          ELSE /\ WriteReturns(out.amazonReturns)
               /\ joinedRecords' = out.joinedRecords
               /\ giftCards' = out.giftCards
               /\ mintTransactions' = out.mintTransactions
               /\ amazonOrder' = out.amazonOrder
               /\ amazonOrders' = out.amazonOrders
               /\ i' = out.i
               /\ dirty' = TRUE
               /\ pc' = "while"
               /\ log' = Append(log, out.entry)
    /\ UNCHANGED <<input, matcher, returnsCloned, run, firstResult>>
    /\ UNCHANGED combVars

\* line 412
CloneReturns ==
    /\ pc = "cloneReturns"
    /\ returnsCloned' = TRUE
    /\ amazonReturns' = amazonReturns
    /\ i' = 0
    /\ pc' = "returns"
    /\ UNCHANGED <<caller, input, mintTransactions, amazonOrders, joinedRecords, giftCards,
                   matcher, amazonOrder, dirty, log, run, firstResult>>
    /\ UNCHANGED combVars

\* variant: only a credit of the return's own order is found
findGiftCardOfOrder(credits, transaction, amazonReturn) ==
    FindIndex(credits,
              LAMBDA giftCard : /\ giftCard.orderId = amazonReturn.orderId
                                /\ amountsMatch(transaction.amount,
                                                amazonReturn.amount - giftCard.amount))

\* lines 416-419: the credit found for a transaction, 0 when there is none
findGiftCard(credits, transaction, amazonReturn) ==
    FindIndex(credits,
              LAMBDA giftCard : amountsMatch(transaction.amount,
                                             amazonReturn.amount - giftCard.amount))

\* lines 420-440
makeReturnRecord(transaction, amazonReturn, credits) ==
    LET giftCard == findGiftCard(credits, transaction, amazonReturn)
        returned == Map(amazonReturn.items,
                        LAMBDA item : [ref |-> 0, trackingId |-> NO_TRACKING,
                                       description |-> DESCRIPTION_PREFIX \o item.description,
                                       amount |-> 0 - item.amount])
        joinedRecord ==
            [mintTransactionId |-> transaction.id,
             orderId |-> amazonReturn.orderId,
             orderDate |-> amazonReturn.returnDate,
             amount |-> transaction.amount,
             items |-> IF giftCard # 0
                       THEN Append(returned,
                                   [ref |-> 0, trackingId |-> NO_TRACKING,
                                    description |-> DESCRIPTION_PREFIX \o GIFT_CARD_DESCRIPTION,
                                    amount |-> 0 - credits[giftCard].amount])
                       ELSE returned,
             isUnmodified |-> FALSE]
    IN  [joinedRecord EXCEPT !.isUnmodified = transactionMatches(joinedRecord, transaction)]

\* lines 414-447: the body of the loop over the returns
returnBody(amazonReturn, txs, credits) ==
    LET found == FindIndex(txs,
                           LAMBDA transaction :
                               \/ findGiftCard(credits, transaction, amazonReturn) # 0
                               \/ amountsMatch(transaction.amount, amazonReturn.amount))
    IN  IF found = 0
        THEN [matched |-> FALSE]
        ELSE [matched |-> TRUE,
              found |-> found,
              joinedRecord |-> makeReturnRecord(txs[found], amazonReturn, credits),
              entry |-> [strategy |-> RETURN_PASS,
                         orderId |-> amazonReturn.orderId,
                         amount |-> amazonReturn.amount,
                         shipments |-> <<>>,
                         pool |-> <<>>,
                         left |-> <<>>,
                         transactions |-> <<txs[found]>>,
                         returnsBefore |-> <<amazonReturn>>]]

\* lines 413-448: one iteration of the loop over the returns
ReturnIteration ==
    /\ pc = "returns"
    /\ i < Len(amazonReturns)
    /\ \E out \in {returnBody(amazonReturns[i + 1], mintTransactions, giftCards)} :
          IF ~out.matched
          THEN /\ i' = i + 1
               /\ UNCHANGED <<mintTransactions, amazonReturns, joinedRecords, log>>
          ELSE /\ joinedRecords' = Append(joinedRecords, out.joinedRecord)
               /\ mintTransactions' = RemoveAt(mintTransactions, out.found)
               /\ amazonReturns' = RemoveAt(amazonReturns, i + 1)
               /\ i' = (i - 1) + 1
               /\ log' = Append(log, out.entry)
    /\ UNCHANGED <<caller, input, amazonOrders, returnsCloned, giftCards, pc, matcher,
                   amazonOrder, dirty, run, firstResult>>
    /\ UNCHANGED combVars

\* lines 450-455
Finish ==
    /\ pc = "returns"
    /\ i >= Len(amazonReturns)
    /\ joinedRecords' = SortByKey(joinedRecords, LAMBDA r : r.orderDate)
    /\ pc' = "done"
    /\ UNCHANGED <<caller, input, mintTransactions, amazonOrders, amazonReturns, returnsCloned,
                   giftCards, matcher, i, amazonOrder, dirty, log, run, firstResult>>
    /\ UNCHANGED combVars

\* The caller feeds the three remaining collections of the first call into a second call.
Rerun ==
    /\ pc = "done"
    /\ run = 1
    /\ firstResult' = [joinedRecords |-> joinedRecords,
                       remainingMintTransactions |-> mintTransactions,
                       remainingAmazonOrders |-> amazonOrders,
                       remainingAmazonReturns |-> amazonReturns]
    /\ caller' = [transactions |-> mintTransactions, orders |-> amazonOrders,
                  returns |-> amazonReturns]
    /\ input' = caller'
    /\ run' = 2
    /\ pc' = "start"
    /\ log' = <<>>
    /\ UNCHANGED <<mintTransactions, amazonOrders, amazonReturns, returnsCloned, joinedRecords,
                   giftCards, matcher, i, amazonOrder, dirty>>
    /\ UNCHANGED combVars

Next ==
    \/ Begin
    \/ LoopHead
    \/ MatchIteration
    \/ CloneReturns
    \/ ReturnIteration
    \/ Finish

-----------------------------------------------------------------------------
(* Inputs.  What the collaborators hand to joinOrders:                       *)
(*   MintClient.getTransactions (src/utils.ts 61-109): distinct ids, one     *)
(*     child per raw row, the children's amounts adding up to the amount,    *)
(*     sorted by date;                                                       *)
(*   AmazonClient.getOrders (src/AmazonClient.ts 57-128): distinct order     *)
(*     ids, tracking ids distinct inside an order, shipment.amount the sum   *)
(*     of its items, at least one item per shipment and one shipment per     *)
(*     order;                                                                *)
(*   AmazonClient.getReturns (src/AmazonClient.ts 130-186): each return      *)
(*     carries a subset of its order's items whose total is minus the        *)
(*     return's amount.                                                      *)

MaxTransactions == 2
MaxOrders == 2
MaxShipments == 2
MaxItems == 2
MaxReturns == 1
MaxPoolItems == 3
MaxReturnItems == 1

SeqsUpTo(S, n) == UNION {[1..k -> S] : k \in 0..n}
NonEmptySeqsUpTo(S, n) == UNION {[1..k -> S] : k \in 1..n}

TrackingIds ==
    <<"T1", "T2", "T3", "T4", "T5", "T6", "T7", "T8", "T9", "T10", "T11",
      "T12", "T13", "T14", "T15", "T16", "T17", "T18", "T19", "T20", "T21",
      "T22", "T23", "T24", "T25", "T26", "T27", "T28", "T29", "T30", "T31",
      "T32", "T33">>
RAW_DESCRIPTION == <<"AMZN", SPACE, "Mktp">>

mkTransaction(id, shape) ==
    [id |-> id, amount |-> shape.amount, date |-> shape.date, children |-> shape.children]

mkShipment(k, items) ==
    [trackingId |-> TrackingIds[k], amount |-> SumAmounts(items), items |-> items]

mkOrder(id, shape) ==
    [orderId |-> id, orderDate |-> shape.orderDate, usedGiftCard |-> shape.usedGiftCard,
     shipments |-> [k \in 1..Len(shape.shipments) |-> mkShipment(k, shape.shipments[k])]]

\* the returns getReturns can build for one order
returnsOf(order, returnDates) ==
    LET orderItems == FlatMap(order.shipments, LAMBDA shipment : shipment.items)
        subsetsOfItems == combinations(orderItems)
    IN  {[orderId |-> order.orderId, returnDate |-> d,
          amount |-> 0 - getTotalAmount(subsetsOfItems[k]), items |-> subsetsOfItems[k]] :
            k \in {n \in 1..Len(subsetsOfItems) : Len(subsetsOfItems[n]) <= MaxReturnItems},
            d \in returnDates}

returnsOfOrders(orders, returnDates) ==
    UNION {returnsOf(orders[k], returnDates) : k \in 1..Len(orders)}

JoinInit(transactions, orders, returns) ==
    /\ caller = [transactions |-> transactions, orders |-> orders, returns |-> returns]
    /\ input = caller
    /\ mintTransactions = <<>>
    /\ amazonOrders = <<>>
    /\ amazonReturns = <<>>
    /\ returnsCloned = FALSE
    /\ joinedRecords = <<>>
    /\ giftCards = <<>>
    /\ pc = "start"
    /\ matcher = EXACT
    /\ i = 0
    /\ amazonOrder = NoValue
    /\ dirty = FALSE
    /\ log = <<>>
    /\ run = 1
    /\ firstResult = NoValue
    /\ array = <<>>
    /\ subsets = <<>>

\* every order of the family carries its orders' line items; a family bounds their number
countItems(orders) ==
    LET n[k \in 0..Len(orders)] ==
            IF k = 0 THEN 0
            ELSE n[k - 1] + Len(FlatMap(orders[k].shipments, LAMBDA shipment : shipment.items))
    IN  n[Len(orders)]

rawChildren(amount) == <<[description |-> RAW_DESCRIPTION, amount |-> amount]>>

(* The general family: every input within the bounds over small amounts.      *)
ItemAmounts == {-10, -15}
TransactionAmounts == {-10, -20, 10}
OrderDay == 0
TransactionDay == 2
LateDay == 20
ReturnDay == 5

item(amount) == [description |-> <<"x">>, amount |-> amount]

Items == {item(a) : a \in ItemAmounts}
TransactionShapes ==
    {[amount |-> a, date |-> TransactionDay, children |-> rawChildren(a)] :
        a \in TransactionAmounts}
    \cup {[amount |-> -10, date |-> LateDay, children |-> rawChildren(-10)]}
OrderShapes ==
    [orderDate : {OrderDay}, usedGiftCard : BOOLEAN,
     shipments : NonEmptySeqsUpTo(NonEmptySeqsUpTo(Items, MaxItems), MaxShipments)]

numbered(shapes) == Tuple([k \in 1..Len(shapes) |-> mkTransaction(k, shapes[k])])

\* getTransactions sorts by date (src/utils.ts 108)
sortedByDate(shapes) ==
    \A k \in 1..(Len(shapes) - 1) : shapes[k].date <= shapes[k + 1].date

InputTransactions ==
    {numbered(sh) : sh \in {x \in SeqsUpTo(TransactionShapes, MaxTransactions) :
                                sortedByDate(x)}}
InputOrders ==
    {orders \in {Tuple([k \in 1..Len(sh) |-> mkOrder(k, sh[k])]) :
                    sh \in SeqsUpTo(OrderShapes, MaxOrders)} :
        countItems(orders) <= MaxPoolItems}
InputReturns(orders) == SeqsUpTo(returnsOfOrders(orders, {ReturnDay}), MaxReturns)

InitGeneral ==
    \E orders \in InputOrders :
        \E returns \in InputReturns(orders), transactions \in InputTransactions :
            JoinInit(transactions, orders, returns)

(* The gift-card family (scenario C of the specification): one order paid   *)
(* partly by gift card, its shipments adding up to -55.00, one debit of     *)
(* -40.00 inside the window, other transactions that are no debit inside    *)
(* the window, and the returns of the order.                                *)
ScenarioTotal == 0 - 5500
ScenarioDebit == 0 - 4000
ScenarioShipments ==
    {<<<<item(-5500)>>>>,
     <<<<item(-4000), item(-1500)>>>>,
     <<<<item(-3000)>>, <<item(-2500)>>>>,
     <<<<item(-4000)>>, <<item(-1500)>>>>}
ScenarioDebits ==
    {[amount |-> ScenarioDebit, date |-> d, children |-> rawChildren(ScenarioDebit)] :
        d \in {OrderDay, OrderDay + 7, OrderDay + WINDOW_DAYS}}
ScenarioOthers ==
    {[amount |-> 1500, date |-> OrderDay + 7, children |-> rawChildren(1500)],
     [amount |-> ScenarioTotal, date |-> OrderDay + WINDOW_DAYS + 1,
      children |-> rawChildren(ScenarioTotal)],
     [amount |-> ScenarioDebit, date |-> OrderDay + WINDOW_DAYS + 1,
      children |-> rawChildren(ScenarioDebit)]}
ScenarioTransactions ==
    {numbered(sh) :
        sh \in {x \in SeqsUpTo(ScenarioDebits \cup ScenarioOthers, MaxTransactions) :
                   /\ sortedByDate(x)
                   /\ Cardinality({k \in 1..Len(x) : x[k] \in ScenarioDebits}) = 1}}

scenarioOrders(shipments) ==
    <<mkOrder(1, [orderDate |-> OrderDay, usedGiftCard |-> TRUE, shipments |-> shipments])>>

InitScenarioC ==
    \E orders \in {scenarioOrders(sh) : sh \in ScenarioShipments} :
        \E returns \in InputReturns(orders), transactions \in ScenarioTransactions :
            JoinInit(transactions, orders, returns)

(* The description family: one order of one shipment whose items differ in  *)
(* description, one debit whose children a previous run or the user may     *)
(* have written, and optionally a return with a credit.                     *)
DescribedItems ==
    {[description |-> d, amount |-> -10] : d \in {<<"x">>, <<"x", SPACE>>, <<"y">>}}
ChildDescriptions ==
    {DESCRIPTION_PREFIX \o <<"x">>, <<SPACE>> \o DESCRIPTION_PREFIX \o <<"x">>,
     DESCRIPTION_PREFIX \o <<"y">>, RAW_DESCRIPTION}
childrenOf(amount, amounts) ==
    {c \in NonEmptySeqsUpTo([description : ChildDescriptions, amount : amounts], MaxItems) :
        SumAmounts(c) = amount}
DescribedDebits ==
    UNION {{[amount |-> a, date |-> TransactionDay, children |-> c] : c \in childrenOf(a, {-10, -20})} :
              a \in {-10, -20}}
DescribedCredits ==
    {[amount |-> 10, date |-> TransactionDay, children |-> <<[description |-> d, amount |-> 10]>>] :
        d \in ChildDescriptions}

describedOrders(items) ==
    <<mkOrder(1, [orderDate |-> OrderDay, usedGiftCard |-> FALSE, shipments |-> <<items>>])>>
DescribedTransactions ==
    {numbered(<<debit>> \o credits) :
        debit \in DescribedDebits, credits \in SeqsUpTo(DescribedCredits, MaxTransactions - 1)}

InitDescriptions ==
    \E orders \in {describedOrders(items) : items \in NonEmptySeqsUpTo(DescribedItems, MaxItems)} :
        \E returns \in InputReturns(orders), transactions \in DescribedTransactions :
            JoinInit(transactions, orders, returns)

(* The priority family: two orders and three transactions, enough for one    *)
(* run to match by more than one strategy (an Exact match takes one          *)
(* transaction, a Combination match at least two).                           *)
MaxPriorityTransactions == 3
PriorityTransactions ==
    {numbered(sh) : sh \in {x \in [1..MaxPriorityTransactions -> TransactionShapes] :
                                sortedByDate(x)}}
PriorityOrders ==
    {<<mkOrder(1, [orderDate |-> OrderDay, usedGiftCard |-> FALSE,
                   shipments |-> <<<<item(-10)>>>>]),
       mkOrder(2, [orderDate |-> OrderDay, usedGiftCard |-> g,
                   shipments |-> sh])>> :
        g \in BOOLEAN,
        sh \in {<<<<item(-15)>>, <<item(-15)>>>>, <<<<item(-15), item(-15)>>>>,
                 <<<<item(-10)>>, <<item(-10)>>>>}}

InitPriority ==
    \E orders \in PriorityOrders :
        \E returns \in InputReturns(orders), transactions \in PriorityTransactions :
            JoinInit(transactions, orders, returns)

(* The window family: one order and transactions dated the day before the    *)
(* order, the day of the order, the last day of the window and the day after *)
(* it, debits and credits of the order's amounts.                            *)
WindowDays == {OrderDay - 1, OrderDay, OrderDay + WINDOW_DAYS, OrderDay + WINDOW_DAYS + 1}
WindowShapes ==
    {[amount |-> a, date |-> d, children |-> rawChildren(a)] : a \in {-10, 10}, d \in WindowDays}
WindowTransactions ==
    {numbered(sh) : sh \in {x \in SeqsUpTo(WindowShapes, MaxTransactions) : sortedByDate(x)}}
WindowOrders ==
    {<<mkOrder(1, [orderDate |-> OrderDay, usedGiftCard |-> g, shipments |-> sh])>> :
        g \in BOOLEAN,
        sh \in {<<<<item(-10)>>>>, <<<<item(-15)>>>>, <<<<item(-10)>>, <<item(-10)>>>>}}

InitWindow ==
    \E orders \in WindowOrders :
        \E returns \in InputReturns(orders), transactions \in WindowTransactions :
            JoinInit(transactions, orders, returns)

(* The credit family: an order paid partly by gift card (-55 of shipments,    *)
(* a debit of -40, hence a credit of 15), optionally a second order paid     *)
(* without gift card, up to two returns of their items and up to two         *)
(* refunds, of a return's amount or of that amount less the credit.          *)
MaxCreditReturns == 2
MaxRefunds == 2
CreditDebit == [amount |-> -40, date |-> TransactionDay, children |-> rawChildren(-40)]
Refunds == {[amount |-> a, date |-> ReturnDay, children |-> rawChildren(a)] : a \in {10, 25}}
CreditTransactions ==
    {numbered(<<CreditDebit>> \o refunds) : refunds \in SeqsUpTo(Refunds, MaxRefunds)}
CreditOrders ==
    {<<mkOrder(1, [orderDate |-> OrderDay, usedGiftCard |-> TRUE,
                   shipments |-> <<<<item(-30), item(-25)>>>>])>> \o second :
        second \in {<<>>, <<mkOrder(2, [orderDate |-> OrderDay, usedGiftCard |-> FALSE,
                                         shipments |-> <<<<item(-25)>>>>])>>}}
CreditReturns(orders) == SeqsUpTo(returnsOfOrders(orders, {ReturnDay}), MaxCreditReturns)

InitCredits ==
    \E orders \in CreditOrders :
        \E returns \in CreditReturns(orders), transactions \in CreditTransactions :
            JoinInit(transactions, orders, returns)

(* The large family: collections as long as a word has bits, one shorter and  *)
(* one longer, where joinOrders hands them to combinations: the shipments of  *)
(* an order (line 335), the debits inside an order's window (line 238) and    *)
(* the items of a matched shipment (line 351).  No returns: getReturns calls  *)
(* combinations on an order's items for each of its returns.                  *)
LargeSizes == {WordBits - 1, WordBits, WordBits + 1}
debit(amount) == [amount |-> amount, date |-> TransactionDay, children |-> rawChildren(amount)]
largeOrder(shipments) ==
    <<mkOrder(1, [orderDate |-> OrderDay, usedGiftCard |-> FALSE, shipments |-> shipments])>>
ManyShipments ==
    {[orders |-> largeOrder([k \in 1..n |-> <<item(-10)>>]), transactions |-> numbered(txs)] :
        n \in LargeSizes, txs \in {<<>>, <<debit(-20)>>}}
ManyItems ==
    {[orders |-> largeOrder(<<[k \in 1..n |-> item(-10)]>>),
      transactions |-> numbered(<<debit(0 - 10 * n)>>)] : n \in LargeSizes}
ManyDebits ==
    {[orders |-> largeOrder(<<<<item(a)>>>>),
      transactions |-> numbered([k \in 1..n |-> debit(-10)])] :
        n \in LargeSizes, a \in {-15, -20}}

InitLarge ==
    \E large \in ManyShipments \cup ManyItems \cup ManyDebits :
        JoinInit(large.transactions, large.orders, <<>>)

Init ==
    InitGeneral \/ InitScenarioC \/ InitDescriptions \/ InitPriority \/ InitWindow
        \/ InitCredits \/ InitLarge

Spec == Init /\ [][Next]_vars

\* the first call followed by the call on what it returned as remaining
NextTwice == Next \/ Rerun

SpecTwice == Init /\ [][NextTwice]_vars

\* joinOrders is single-threaded synchronous code: the step the program is at
\* is taken.  That is weak fairness of each action; for MatchIteration it is
\* written with the action's enabling condition spelled out (a while iteration
\* is enabled exactly when the program is at the while loop with dirty set).
Fairness ==
    /\ WF_vars(Begin)
    /\ WF_vars(LoopHead)
    /\ WF_vars(CloneReturns)
    /\ WF_vars(ReturnIteration)
    /\ WF_vars(Finish)
    /\ ([]<>~(pc = "while" /\ dirty) \/ []<><<MatchIteration>>_vars)

SpecFair == Init /\ [][Next]_vars /\ Fairness

-----------------------------------------------------------------------------
(* combinations as a pure function: the inputs are drawn by CombInit and     *)
(* Combine applies it                                                        *)

MaxLength == 4
Elements == {"a", "b", "c"}

\* arrays as long as a word has bits, and one shorter and one longer
longArray(n, first) == [j \in 1..n |-> IF j = 1 THEN first ELSE "a"]
LongArrays ==
    {longArray(n, first) : n \in {WordBits - 1, WordBits, WordBits + 1}, first \in Elements}

CombInit ==
    /\ array \in SeqsUpTo(Elements, MaxLength) \cup LongArrays
    /\ subsets = <<>>
    /\ pc = "combine"
    /\ caller = NoValue
    /\ input = NoValue
    /\ mintTransactions = <<>>
    /\ amazonOrders = <<>>
    /\ amazonReturns = <<>>
    /\ returnsCloned = FALSE
    /\ joinedRecords = <<>>
    /\ giftCards = <<>>
    /\ matcher = EXACT
    /\ i = 0
    /\ amazonOrder = NoValue
    /\ dirty = FALSE
    /\ log = <<>>
    /\ run = 1
    /\ firstResult = NoValue

Combine ==
    /\ pc = "combine"
    /\ IF combinationsThrows(array)
       THEN /\ subsets' = subsets
            /\ pc' = "RangeError"
       ELSE /\ subsets' = combinations(array)
            /\ pc' = "combined"
    /\ UNCHANGED <<array, caller, input, mintTransactions, amazonOrders, amazonReturns,
                   returnsCloned, joinedRecords, giftCards, matcher, i, amazonOrder, dirty, log,
                   run, firstResult>>

SpecComb == CombInit /\ [][Combine]_vars

-----------------------------------------------------------------------------
(* Properties                                                                *)

Count(s, test(_)) == Cardinality({k \in 1..Len(s) : test(s[k])})

hasDescription(record, description) ==
    \E n \in 1..Len(record.items) :
        record.items[n].description = DESCRIPTION_PREFIX \o description

\* C1: once joinOrders holds its working copies, every input transaction is in
\* exactly one place: it is the mintTransactionId of exactly one JoinedRecord or
\* it is, unchanged, in the remaining transactions, never both and never
\* neither; and no record or remaining transaction is anything but an input
\* transaction.
C1_TransactionPartition ==
    pc # "start" =>
        /\ \A n \in 1..Len(input.transactions) :
              Count(joinedRecords,
                    LAMBDA r : r.mintTransactionId = input.transactions[n].id)
              + Count(mintTransactions, LAMBDA t : t = input.transactions[n]) = 1
        /\ \A k \in 1..Len(joinedRecords) :
              \E n \in 1..Len(input.transactions) :
                  joinedRecords[k].mintTransactionId = input.transactions[n].id
        /\ \A k \in 1..Len(mintTransactions) :
              \E n \in 1..Len(input.transactions) :
                  mintTransactions[k] = input.transactions[n]

\* a finished run in which one of two transactions was joined and the other remains
C1_Witness ==
    /\ pc = "done"
    /\ Len(input.transactions) = 2
    /\ Len(joinedRecords) = 1
    /\ Len(mintTransactions) = 1

\* C2: in every JoinedRecord, whatever strategy, allocation or pass produced it,
\* the amounts of the items add up to the amount of the record within the
\* tolerance.
C2_AmountConservation ==
    \A k \in 1..Len(joinedRecords) :
        amountsMatch(SumAmounts(joinedRecords[k].items), joinedRecords[k].amount)

\* a finished run holding a record of the greedy split with its balancing item
\* next to a line item
C2_Witness ==
    /\ pc = "done"
    /\ \E k \in 1..Len(joinedRecords) :
          /\ hasDescription(joinedRecords[k], BALANCE_ADJUST_DESCRIPTION)
          /\ Len(joinedRecords[k].items) >= 2

\* C3: when joinOrders has returned, the caller's transactions, orders and
\* returns are what they were when it was called.
C3_InputsUntouched ==
    pc = "done" => caller = input

pairOf(x) == <<x.amount, Trim(x.description)>>

sameMultiset(a, b) ==
    /\ Len(a) = Len(b)
    /\ \A n \in 1..Len(a) :
          Count(a, LAMBDA x : pairOf(x) = pairOf(a[n]))
              = Count(b, LAMBDA x : pairOf(x) = pairOf(a[n]))

inputTransaction(id) ==
    input.transactions[CHOOSE n \in 1..Len(input.transactions) : input.transactions[n].id = id]

\* C4: in every JoinedRecord, isUnmodified is true exactly when the multiset of
\* (amount, trimmed description) pairs of the record's items equals that of the
\* children of the matched transaction.
C4_UnmodifiedIffSameMultiset ==
    \A k \in 1..Len(joinedRecords) :
        joinedRecords[k].isUnmodified
            <=> sameMultiset(joinedRecords[k].items,
                             inputTransaction(joinedRecords[k].mintTransactionId).children)

\* C5 as stated: the second call, made on what the first call returned as
\* remaining, produces no JoinedRecord and returns remaining collections
\* identical to its inputs.
C5_SecondRunIdentical ==
    (run = 2 /\ pc = "done") =>
        /\ joinedRecords = <<>>
        /\ mintTransactions = firstResult.remainingMintTransactions
        /\ amazonOrders = firstResult.remainingAmazonOrders
        /\ amazonReturns = firstResult.remainingAmazonReturns

\* C5, amended: the second call produces no JoinedRecord, returns the remaining
\* transactions and returns identical to its inputs, and returns the same
\* orders, unchanged, in the order the sort of line 326 gives them by what is
\* left of their shipments.
C5_SecondRunAddsNothing ==
    (run = 2 /\ pc = "done") =>
        /\ joinedRecords = <<>>
        /\ mintTransactions = firstResult.remainingMintTransactions
        /\ amazonOrders = SortByKey(firstResult.remainingAmazonOrders,
                                    LAMBDA o : 0 - getTotalAmount(o.shipments))
        /\ amazonReturns = firstResult.remainingAmazonReturns

\* a second call that has returned, after a first call that joined something
\* and left transactions, orders and a return behind
C5_Witness ==
    /\ run = 2
    /\ pc = "done"
    /\ firstResult.joinedRecords # <<>>
    /\ Len(firstResult.remainingAmazonOrders) = 2
    /\ Len(firstResult.remainingMintTransactions) >= 1
    /\ Len(firstResult.remainingAmazonReturns) >= 1

\* the tracking ids of the shipments a record's items are tagged with
trackingIdsOf(record) ==
    {record.items[n].trackingId : n \in 1..Len(record.items)} \ {NO_TRACKING}

\* two records hold items of one shipment (a shipment is known by its order and
\* its tracking id)
shareShipment(r1, r2) ==
    /\ r1.orderId = r2.orderId
    /\ trackingIdsOf(r1) \cap trackingIdsOf(r2) # {}

\* no shipment whose items are in a record is still in its order's shipment list
consumedShipmentsGone ==
    \A k \in 1..Len(joinedRecords), o \in 1..Len(amazonOrders) :
        amazonOrders[o].orderId = joinedRecords[k].orderId =>
            \A n \in 1..Len(amazonOrders[o].shipments) :
                amazonOrders[o].shipments[n].trackingId \notin trackingIdsOf(joinedRecords[k])

\* C6 as stated: no two JoinedRecords hold items tagged with the same shipment,
\* and a shipment whose items are in a JoinedRecord is no longer in its order.
C6_OneRecordPerShipment ==
    /\ \A k1, k2 \in 1..Len(joinedRecords) :
          k1 # k2 => ~shareShipment(joinedRecords[k1], joinedRecords[k2])
    /\ consumedShipmentsGone

\* C6, amended: every shipment is consumed by at most one strategy match: two
\* JoinedRecords hold items of the same shipment only when they are the records
\* of the transactions of one match (the Combination strategy returning several
\* transactions for the shipment group), no shipment belongs to the groups of two
\* matches, and a shipment whose items are in a JoinedRecord is no longer in its
\* order.
C6_OneMatchPerShipment ==
    /\ \A k1, k2 \in 1..Len(joinedRecords) :
          (k1 # k2 /\ shareShipment(joinedRecords[k1], joinedRecords[k2])) =>
              \E e \in 1..Len(log) :
                  /\ log[e].strategy = COMBINATION
                  /\ log[e].orderId = joinedRecords[k1].orderId
                  /\ \E n1, n2 \in 1..Len(log[e].transactions) :
                        /\ log[e].transactions[n1].id = joinedRecords[k1].mintTransactionId
                        /\ log[e].transactions[n2].id = joinedRecords[k2].mintTransactionId
    /\ \A e1, e2 \in 1..Len(log) :
          (e1 # e2 /\ log[e1].orderId = log[e2].orderId) =>
              \A n1 \in 1..Len(log[e1].shipments), n2 \in 1..Len(log[e2].shipments) :
                  log[e1].shipments[n1] # log[e2].shipments[n2]
    /\ consumedShipmentsGone

\* a finished run with two records that hold items of the same shipment
C6_Witness ==
    /\ pc = "done"
    /\ \E k1, k2 \in 1..Len(joinedRecords) :
          k1 # k2 /\ shareShipment(joinedRecords[k1], joinedRecords[k2])

\* scenario C: an order paid partly by gift card, a shipment group of -55.00 and
\* -40.00 the only debit inside the window
scenarioC(order, shipments, txs) ==
    /\ order.usedGiftCard
    /\ getTotalAmount(shipments) = ScenarioTotal
    /\ Len(inWindowDebits(txs, order)) = 1
    /\ inWindowDebits(txs, order)[1].amount = ScenarioDebit

ScenarioReturn == ScenarioDebit - ScenarioTotal

noScenarioReturn(returns) ==
    \A n \in 1..Len(returns) : returns[n].amount # ScenarioReturn

giftCardItem(amount) == [description |-> GIFT_CARD_DESCRIPTION, amount |-> amount]

\* what the Gift-Card strategy does in scenario C, the synthetic item having the
\* given amount: wherever the strategy is about to be applied to such a group it
\* returns the debit and, no return of 15.00 pending, appends the item to the
\* first shipment of the group and leaves the returns alone; and every match the
\* run has made in the scenario has that one item in its pool, tagged with the
\* group's first shipment, and has credited its amount to the order
giftCardScenario(itemAmount) ==
    /\ (pc = "while" /\ dirty /\ matcher = GIFT_CARD) =>
          \A g \in 1..Len(combinations(amazonOrder.shipments)) :
              LET shipments == combinations(amazonOrder.shipments)[g]
                  r == getGiftCardMatches(shipments, getTotalAmount(shipments), amazonOrder,
                                          amazonReturns, mintTransactions)
              IN  scenarioC(amazonOrder, shipments, mintTransactions) =>
                      /\ r.matches = inWindowDebits(mintTransactions, amazonOrder)
                      /\ noScenarioReturn(amazonReturns) =>
                            /\ r.shipments[1].items
                                   = Append(shipments[1].items, giftCardItem(itemAmount))
                            /\ \A n \in 2..Len(shipments) : r.shipments[n] = shipments[n]
                            /\ r.amazonReturns = amazonReturns
    /\ \A e \in 1..Len(log) :
          ( /\ log[e].strategy = GIFT_CARD
            /\ log[e].amount = ScenarioTotal
            /\ log[e].transactions[1].amount = ScenarioDebit
            /\ noScenarioReturn(log[e].returnsBefore) ) =>
              /\ Count(log[e].pool,
                       LAMBDA x : x.description
                                      = DESCRIPTION_PREFIX \o GIFT_CARD_DESCRIPTION) = 1
              /\ \A n \in 1..Len(log[e].pool) :
                    log[e].pool[n].description = DESCRIPTION_PREFIX \o GIFT_CARD_DESCRIPTION
                        => /\ log[e].pool[n].amount = itemAmount
                           /\ log[e].pool[n].trackingId = log[e].shipments[1]
              /\ \E c \in 1..Len(giftCards) :
                    giftCards[c] = [orderId |-> log[e].orderId, amount |-> itemAmount]

\* C7 as stated: in scenario C the Gift-Card strategy matches the -40.00 debit
\* and, no return of 15.00 pending, the synthetic Gift Card item is -15.00.
C7_GiftCardItemNegative ==
    giftCardScenario(0 - ScenarioReturn)

\* C7, amended: in scenario C the Gift-Card strategy matches the -40.00 debit
\* and, no return of 15.00 pending, the synthetic Gift Card item is +15.00 (the
\* shipment total minus the debit, negated), so that the group's items add up to
\* the debit.
C7_GiftCardItemPositive ==
    giftCardScenario(ScenarioReturn)

\* a finished run in which the Gift-Card strategy matched the -40.00 debit to the
\* group of -55.00 with no return of 15.00 pending
C7_Witness ==
    /\ pc = "done"
    /\ \E e \in 1..Len(log) :
          /\ log[e].strategy = GIFT_CARD
          /\ log[e].amount = ScenarioTotal
          /\ log[e].transactions[1].amount = ScenarioDebit
          /\ noScenarioReturn(log[e].returnsBefore)
          /\ log[e].returnsBefore # <<>>

\* the records made for the transactions of one match
recordsOf(entry) ==
    {k \in 1..Len(joinedRecords) :
        \E n \in 1..Len(entry.transactions) :
            joinedRecords[k].mintTransactionId = entry.transactions[n].id}

\* the places, in the records of one match, where a line item of its pool is
holdersOf(entry, poolItem) ==
    {<<k, m>> \in recordsOf(entry) \X (1..MaxPoolItems + 1) :
        /\ m <= Len(joinedRecords[k].items)
        /\ joinedRecords[k].items[m].ref = poolItem.ref}

\* C8: whenever the Combination strategy returns k transactions for a shipment
\* group there are exactly k JoinedRecords, one per transaction, and every line
\* item of the group's shipments is in exactly one of them.
C8_CombinationPartitionsItems ==
    \A e \in 1..Len(log) :
        log[e].strategy = COMBINATION =>
            /\ Cardinality(recordsOf(log[e])) = Len(log[e].transactions)
            /\ \A n \in 1..Len(log[e].pool) :
                  Cardinality(holdersOf(log[e], log[e].pool[n])) = 1

\* strategy m finds no transaction for any group of shipments of any order left
noMatchLeft(m) ==
    \A o \in 1..Len(amazonOrders) :
        \A g \in 1..Len(combinations(amazonOrders[o].shipments)) :
            ApplyMatcher(m, combinations(amazonOrders[o].shipments)[g],
                         getTotalAmount(combinations(amazonOrders[o].shipments)[g]),
                         amazonOrders[o], amazonReturns, mintTransactions).matches = <<>>

\* C9: the matches of a run come in the order of the strategies: every Exact
\* match, over all orders, before any Combination match, and every Combination
\* match before any Gift-Card match; a later match uses no transaction and no
\* shipment that an earlier match used; and while a strategy is at work every
\* earlier strategy has completed its pass: it would match nothing of what is
\* left.
C9_StrategyPriority ==
    /\ \A e1, e2 \in 1..Len(log) :
          e1 < e2 =>
              /\ log[e1].strategy <= log[e2].strategy
              /\ \A n1 \in 1..Len(log[e1].transactions), n2 \in 1..Len(log[e2].transactions) :
                    log[e1].transactions[n1].id # log[e2].transactions[n2].id
              /\ log[e1].orderId = log[e2].orderId =>
                    \A n1 \in 1..Len(log[e1].shipments), n2 \in 1..Len(log[e2].shipments) :
                        log[e1].shipments[n1] # log[e2].shipments[n2]
    /\ pc # "start" =>
          \A m \in {EXACT, COMBINATION, GIFT_CARD} : m < matcher => noMatchLeft(m)

\* a finished run with an Exact match, then a Combination match
C9_Witness ==
    /\ pc = "done"
    /\ \E e1, e2 \in 1..Len(log) :
          /\ e1 < e2
          /\ log[e1].strategy = EXACT
          /\ log[e2].strategy = COMBINATION

\* the 1-based positions of the array whose bit (position - 1) is set in mask
positionsOf(mask, n) == {j \in 1..n : (mask \div 2^(j - 1)) % 2 = 1}

\* the r-th smallest member of a set of positions
nthPosition(P, r) == CHOOSE j \in P : Cardinality({x \in P : x < j}) = r - 1

\* count = 2^n - 1: in binary, count is n ones
RECURSIVE isAllOnes(_, _)
isAllOnes(count, n) ==
    IF n = 0 THEN count = 0 ELSE count % 2 = 1 /\ isAllOnes(count \div 2, n - 1)

\* C10: combinations(array), for an array of length n, returns exactly 2^n - 1
\* subsets (none for n = 0), none of them empty, the k-th of them holding the
\* elements whose position j (from 0) has bit j set in k, in the order they have
\* in the array.
C10_Combinations ==
    /\ pc # "RangeError"
    /\ pc = "combined" =>
          /\ isAllOnes(Len(subsets), Len(array))
          /\ \A k \in 1..Len(subsets) :
                /\ Len(subsets[k]) = Cardinality(positionsOf(k, Len(array)))
                /\ Len(subsets[k]) >= 1
                /\ \A r \in 1..Len(subsets[k]) :
                      subsets[k][r] = array[nthPosition(positionsOf(k, Len(array)), r)]

orderOf(orderId) ==
    input.orders[CHOOSE n \in 1..Len(input.orders) : input.orders[n].orderId = orderId]

\* the record is one of a match of the order pass
orderPassRecord(record) ==
    \E e \in 1..Len(log) :
        /\ log[e].strategy # RETURN_PASS
        /\ log[e].orderId = record.orderId
        /\ \E n \in 1..Len(log[e].transactions) :
              log[e].transactions[n].id = record.mintTransactionId

\* C11: every JoinedRecord of the order pass, whichever of the three strategies
\* made the match, pairs an order with a debit (amount < 0) dated inside the
\* closed window [orderDate, orderDate + 14 days]: no transaction dated outside
\* the window and no credit is matched to an order.
C11_DebitsInsideWindow ==
    /\ \A e \in 1..Len(log) :
          log[e].strategy # RETURN_PASS =>
              \A n \in 1..Len(log[e].transactions) :
                  /\ log[e].transactions[n].amount < 0
                  /\ log[e].transactions[n].date >= orderOf(log[e].orderId).orderDate
                  /\ log[e].transactions[n].date
                        <= orderOf(log[e].orderId).orderDate + WINDOW_DAYS
                  /\ \E k \in 1..Len(joinedRecords) :
                        /\ joinedRecords[k].mintTransactionId = log[e].transactions[n].id
                        /\ joinedRecords[k].orderId = log[e].orderId
    /\ \A k \in 1..Len(joinedRecords) :
          orderPassRecord(joinedRecords[k]) =>
              /\ joinedRecords[k].orderDate = orderOf(joinedRecords[k].orderId).orderDate
              /\ joinedRecords[k].amount
                    = inputTransaction(joinedRecords[k].mintTransactionId).amount
              /\ inputTransaction(joinedRecords[k].mintTransactionId).amount < 0
              /\ inputTransaction(joinedRecords[k].mintTransactionId).date
                    >= joinedRecords[k].orderDate
              /\ inputTransaction(joinedRecords[k].mintTransactionId).date
                    <= joinedRecords[k].orderDate + WINDOW_DAYS

\* a finished run that matched a debit dated the last day of the window while a
\* debit of the same amount dated the day after stays unmatched
C11_Witness ==
    /\ pc = "done"
    /\ \E e \in 1..Len(log) :
          /\ log[e].strategy # RETURN_PASS
          /\ log[e].transactions[1].date = orderOf(log[e].orderId).orderDate + WINDOW_DAYS
          /\ \E n \in 1..Len(mintTransactions) :
                /\ mintTransactions[n].amount = log[e].amount
                /\ mintTransactions[n].date
                      = orderOf(log[e].orderId).orderDate + WINDOW_DAYS + 1

\* the pool as the allocation for the k-th transaction of a match finds it
poolAt(entry, k) ==
    LET p[j \in 1..k] ==
            IF j = 1 THEN entry.pool
            ELSE allocateItems(p[j - 1], entry.transactions[j - 1]).items
    IN  p[k]

\* the masks of the subsets of the pool that add up to the amount
matchingSubsets(pool, amount) ==
    {mask \in 1..Len(combinations(pool)) :
        amountsMatch(getTotalAmount(combinations(pool)[mask]), amount)}

lastOf(masks) == CHOOSE mask \in masks : \A other \in masks : other <= mask

\* the pool minus the members of the chosen subset
poolWithout(pool, chosen) ==
    Filter(pool, LAMBDA x : \A n \in 1..Len(chosen) : chosen[n].ref # x.ref)

recordOf(id) ==
    joinedRecords[CHOOSE k \in 1..Len(joinedRecords) : joinedRecords[k].mintTransactionId = id]

\* the allocation of items to the k-th transaction of a match satisfies the
\* predicate whenever a subset of its pool adds up to the transaction's amount
exactSubsetAttempt(holds(_, _, _, _)) ==
    \A e \in 1..Len(log) :
        log[e].strategy # RETURN_PASS =>
            \A k \in 1..Len(log[e].transactions) :
                matchingSubsets(poolAt(log[e], k), log[e].transactions[k].amount) # {} =>
                    holds(log[e], k, poolAt(log[e], k),
                          combinations(poolAt(log[e], k))[
                              lastOf(matchingSubsets(poolAt(log[e], k),
                                                     log[e].transactions[k].amount))])

\* the allocation is the chosen subset
allocatesChosen(entry, k, pool, chosen) ==
    recordOf(entry.transactions[k].id).items = chosen

\* the pool afterwards is the pool before minus the members of the chosen subset
removesChosenOnly(entry, k, pool, chosen) ==
    /\ allocateItems(pool, entry.transactions[k]).items = poolWithout(pool, chosen)
    /\ k = Len(entry.transactions) => entry.left = poolWithout(pool, chosen)

\* C12: in the exact-subset attempt, when at least one subset of the item pool
\* adds up to the transaction's amount within the tolerance, the allocation is
\* the last such subset in mask-ascending order, and the pool afterwards is the
\* pool before minus exactly the members of that subset: the items of the other
\* matching subsets stay in the pool.
C12_LastSubsetOnlyRemoved ==
    /\ exactSubsetAttempt(allocatesChosen)
    /\ exactSubsetAttempt(removesChosenOnly)

\* what the order's shipments cost: amounts are minus the prices
\* (src/AmazonClient.ts 76)
purchaseTotal(order) == 0 - getTotalAmount(order.shipments)

\* C13: the orders are processed larger first: as long as no match has changed
\* them, the working orders are in descending order of purchase total, and the
\* order a strategy pass is attempting has a purchase total at least that of
\* every order the pass has still to attempt.
C13_LargerOrdersFirst ==
    /\ (pc # "start" /\ log = <<>>) =>
          \A k \in 1..(Len(amazonOrders) - 1) :
              purchaseTotal(amazonOrders[k]) >= purchaseTotal(amazonOrders[k + 1])
    /\ (pc = "while" /\ log = <<>>) =>
          \A k \in (i + 2)..Len(amazonOrders) :
              purchaseTotal(amazonOrder) >= purchaseTotal(amazonOrders[k])

\* the credits whose amount makes the transaction match the return
creditsFor(transaction, amazonReturn) ==
    {c \in 1..Len(giftCards) :
        amountsMatch(transaction.amount, amazonReturn.amount - giftCards[c].amount)}

creditItem(credit) ==
    [ref |-> 0, trackingId |-> NO_TRACKING,
     description |-> DESCRIPTION_PREFIX \o GIFT_CARD_DESCRIPTION, amount |-> 0 - credit.amount]

\* the record of a match of the return pass carries the first credit that fits by
\* amount, whatever its order, and carries none only when no credit fits
creditChosenByAmount(entry) ==
    IF creditsFor(entry.transactions[1], entry.returnsBefore[1]) = {}
    THEN /\ amountsMatch(entry.transactions[1].amount, entry.returnsBefore[1].amount)
         /\ ~hasDescription(recordOf(entry.transactions[1].id), GIFT_CARD_DESCRIPTION)
    ELSE recordOf(entry.transactions[1].id).items
             = Append(Map(entry.returnsBefore[1].items,
                          LAMBDA x : [ref |-> 0, trackingId |-> NO_TRACKING,
                                      description |-> DESCRIPTION_PREFIX \o x.description,
                                      amount |-> 0 - x.amount]),
                      creditItem(giftCards[CHOOSE c \in creditsFor(entry.transactions[1],
                                                                   entry.returnsBefore[1]) :
                                              \A d \in creditsFor(entry.transactions[1],
                                                                  entry.returnsBefore[1]) :
                                                  c <= d]))

\* no return is left next to a transaction it matches, with or without a credit
noReturnMatchLeft ==
    \A r \in 1..Len(amazonReturns), t \in 1..Len(mintTransactions) :
        /\ creditsFor(mintTransactions[t], amazonReturns[r]) = {}
        /\ ~amountsMatch(mintTransactions[t].amount, amazonReturns[r].amount)

\* C14: the return pass never prunes the gift-card credits: no step of the pass
\* changes the list of credits; a credit is selected by amount alone (the
\* transaction's amount matches the return's amount minus the credit's amount),
\* whatever order it came from; so a credit stays available to every later
\* return, and when the pass ends no return is left that a remaining
\* transaction matches with some credit.
C14_CreditsNeverPruned ==
    /\ [][pc = "returns" => giftCards' = giftCards]_vars
    /\ [](\A e \in 1..Len(log) :
              log[e].strategy = RETURN_PASS => creditChosenByAmount(log[e]))
    /\ [](pc = "done" => noReturnMatchLeft)

\* a finished run in which the one credit there is, is in the records of two
\* returns, one of them the return of another order
C14_Witness ==
    /\ pc = "done"
    /\ Len(giftCards) = 1
    /\ \E e1, e2 \in 1..Len(log) :
          /\ e1 # e2
          /\ log[e1].strategy = RETURN_PASS
          /\ log[e2].strategy = RETURN_PASS
          /\ hasDescription(recordOf(log[e1].transactions[1].id), GIFT_CARD_DESCRIPTION)
          /\ hasDescription(recordOf(log[e2].transactions[1].id), GIFT_CARD_DESCRIPTION)
          /\ log[e2].orderId # giftCards[1].orderId

\* the strategy at work finds nothing for any order the pass has left behind:
\* the orders before index i
noOrderSkipped ==
    (pc \in {"loop", "while"} /\ matcher <= GIFT_CARD) =>
        \A o \in 1..i :
            \A g \in 1..Len(combinations(amazonOrders[o].shipments)) :
                ApplyMatcher(matcher, combinations(amazonOrders[o].shipments)[g],
                             getTotalAmount(combinations(amazonOrders[o].shipments)[g]),
                             amazonOrders[o], amazonReturns, mintTransactions).matches = <<>>

\* a restart of the while loop has removed at least one shipment from the order
restartRemovesShipment ==
    (pc = "while" /\ pc' = "while") =>
        Len(amazonOrder'.shipments) < Len(amazonOrder.shipments)

\* a match of the return pass removes one return and one transaction
returnMatchRemovesBoth ==
    (pc = "returns" /\ Len(joinedRecords') > Len(joinedRecords)) =>
        /\ Len(amazonReturns') = Len(amazonReturns) - 1
        /\ Len(mintTransactions') = Len(mintTransactions) - 1

\* C15: joinOrders terminates on every input without raising: it never leaves
\* by an error and it eventually returns; every restart of an order's while loop
\* has removed at least one shipment from the order; the decrement of the index
\* on removing an emptied order makes no order be skipped; and every match of
\* the return pass removes one return and one transaction.
C15_TerminatesWithoutRaising ==
    /\ [](pc # "RangeError")
    /\ <>(pc = "done")
    /\ [][restartRemovesShipment]_vars
    /\ [](noOrderSkipped)
    /\ [][returnMatchRemovesBoth]_vars

====
